---- MODULE Spec2Model ----
(***************************************************************************)
(* Invoice processing: the background pipeline of FileProcessor, the       *)
(* in-memory repository MemStorage, the chunk and finalize routes and the  *)
(* edit state of the ChunkReview component.                                *)
(*                                                                         *)
(* Every handler is an async function.  A call to the repository takes     *)
(* effect when it is made (the bodies of MemStorage's methods contain no   *)
(* await) and the `await` on its result is a suspension point, so a        *)
(* handler is modelled as one action per stretch of code between two       *)
(* awaits, and the stretches of different handlers interleave freely.      *)
(***************************************************************************)
EXTENDS Integers, Sequences, FiniteSets, TLC

\* ---------------------------------------------------------------- bounds
MaxChunks == 2          \* entries in one extraction result
MaxInflight == 2        \* route handlers suspended at an await at the same time
MaxDocs == 1            \* documents submitted
MaxRequests == 3        \* chunk / finalize requests received (Spec)
MaxReviewRequests == 4  \* chunk / finalize requests received (SpecReview)
MaxListLen == 4         \* chunks in the list handed to useKeyboardNavigation
MaxPipelineDocs == 2    \* documents submitted (SpecPipeline)

\* ------------------------------------------------------------ value sets
Null == "null"
InvoiceStatus == {"uploading", "processing", "ready_for_review", "approved", "rejected"}
ChunkStatus == {"pending", "approved", "rejected", "editing"}
ExtractedValues == {"x"}           \* data of an extraction entry
EditValues == {"e"}                \* data typed into an edit form

VARIABLES
    invoices,       \* MemStorage.invoices : id -> Invoice (id = position)
    chunks,         \* MemStorage.chunks   : id -> Chunk   (id = position)
    run,            \* per document: where processFileInBackground stands
    inflight,       \* route handlers suspended at an await
    nreq,           \* requests received so far
    last,           \* the response sent by the latest step (with the request it
                    \* answers), NoResponse if the step sent none
    editingChunks,  \* ChunkReview.editingChunks
    editData,       \* ChunkReview.editData
    cfg,            \* the limits of the behaviour: [docs, requests], never changed
    focusedChunkIndex,  \* useKeyboardNavigation: the cursor (0-based)
    navChunks,      \* useKeyboardNavigation: its `chunks` prop, the statuses in order
    event,          \* useKeyboardNavigation: what the latest step handled
    invoked,        \* useKeyboardNavigation: the callback the latest step invoked
    target          \* the element the latest key event was aimed at

\* the state of the review-queue navigator
nav == <<focusedChunkIndex, navChunks, event, invoked, target>>

\* the state of the server and of ChunkReview
app == <<invoices, chunks, run, inflight, nreq, last, editingChunks, editData, cfg>>

vars == <<invoices, chunks, run, inflight, nreq, last, editingChunks, editData, cfg,
          focusedChunkIndex, navChunks, event, invoked, target>>

\* the ids a request can name: those the repository can hand out
InvoiceIds == 1..cfg.docs
ChunkIds == 1..(cfg.docs * MaxChunks)

\* ------------------------------------------------------------ repository
\* {...r, ...u}
Merge(r, u) == [f \in (DOMAIN r) \cup (DOMAIN u) |-> IF f \in DOMAIN u THEN u[f] ELSE r[f]]

createInvoice(insertInvoice) ==
    Append(invoices,
        [status |-> insertInvoice.status,
         processingProgress |-> insertInvoice.processingProgress,
         extractedText |-> Null,
         totalChunks |-> 0,
         approvedChunks |-> 0,
         rejectedChunks |-> 0])

\* (mutant) an update of an unknown id stores a new record
updateInvoiceUpsert(invs, id, updates) ==
    IF id \in DOMAIN invs THEN [invs EXCEPT ![id] = Merge(invs[id], updates)]
    ELSE Append(invs, Merge([status |-> "uploading", processingProgress |-> 0,
                             extractedText |-> Null, totalChunks |-> 0,
                             approvedChunks |-> 0, rejectedChunks |-> 0], updates))

updateInvoice(invs, id, updates) ==
    IF id \in DOMAIN invs THEN [invs EXCEPT ![id] = Merge(invs[id], updates)] ELSE invs

createChunk(chks, insertChunk) ==
    Append(chks,
        [invoiceId |-> insertChunk.invoiceId,
         sequenceNumber |-> insertChunk.sequenceNumber,
         extractedData |-> insertChunk.extractedData,
         status |-> insertChunk.status,
         isEdited |-> insertChunk.isEdited,
         originalData |-> Null])

getChunksByInvoice(invoiceId) == {c \in DOMAIN chunks : chunks[c].invoiceId = invoiceId}

updateChunk(id, updates) == [chunks EXCEPT ![id] = Merge(chunks[id], updates)]

updateChunkStatus(id, status) == [chunks EXCEPT ![id].status = status]

\* chunks.filter(c => c.status === s).length over a result of getChunksByInvoice
CountStatus(chks, ids, s) == Cardinality({c \in ids : chks[c].status = s})

NoBody == [f \in {} |-> Null]

NoResponse == [kind |-> "none", id |-> 0, code |-> 0, body |-> NoBody, prior |-> Null]

NoCall == [fn |-> "none", index |-> -1]

\* ------------------------------------------------------------------ Init
Empty ==
    /\ invoices = <<>>
    /\ chunks = <<>>
    /\ run = <<>>
    /\ inflight = {}
    /\ nreq = 0
    /\ last = NoResponse
    /\ editingChunks = {}
    /\ editData = <<>>
    /\ focusedChunkIndex = 0
    /\ navChunks = <<>>
    /\ event = "mount"
    /\ invoked = NoCall
    /\ target = "none"

Init == Empty /\ cfg = [docs |-> MaxDocs, requests |-> MaxRequests]

InitReview == Empty /\ cfg = [docs |-> MaxDocs, requests |-> MaxReviewRequests]

\* ------------------------------------------------- extraction collaborator
\* One entry of the chunk list returned by parseInvoiceWithVision.  `storable`
\* tells whether the repository's createChunk promise for the entry resolves
\* (TRUE) or rejects (FALSE).
Entries == [data : ExtractedValues, storable : BOOLEAN]

SeqsUpTo(S, n) == UNION {[1..k -> S] : k \in 0..n}

\* The outcomes of `await parseInvoiceWithVision(base64Image)`: a well-formed
\* ParsedInvoiceData, or a throw (API error, or a payload whose chunks are
\* missing or not an array).
WellFormedResults == [chunks : SeqsUpTo(Entries, MaxChunks), extractedText : {"text"}]

\* `parsedData` while no extraction result is held
NoParsedData == [chunks |-> <<>>, extractedText |-> Null]

\* ------------------------------------------------------------- pipeline
\* run[id].pc:
\*   "start"   createInvoice done, processFileInBackground not yet called
\*   "convert" progress 25 written, awaiting convertToBase64Image
\*   "parse"   progress 50 written, awaiting parseInvoiceWithVision
\*   "create"  progress 75 written, awaiting that write
\*   "settle"  createChunk called for every entry, awaiting Promise.all
\*   "done"    the run has returned
\* run[id].outcome: "running", "ok" (final write made), "failed" (catch ran)

\* the catch block of processFileInBackground
\* (mutant) the catch block marks the document rejected but keeps the progress
CatchUpdatesKeepProgress == [status |-> "rejected"]

\* (mutant) the catch block resets the progress and forgets the status
CatchUpdatesNoStatus == [processingProgress |-> 0]

CatchUpdates == [status |-> "rejected", processingProgress |-> 0]

\* (mutant) the catch block marks every stored document, not only its own
CatchBlockAll(id) == [d \in DOMAIN invoices |-> Merge(invoices[d], CatchUpdates)]

CatchBlock(id) == updateInvoice(invoices, id, CatchUpdates)

\* (mutant) the final write leaves totalChunks out
FinalUpdatesNoTotal(parsedData) ==
    [status |-> "ready_for_review",
     processingProgress |-> 100,
     extractedText |-> parsedData.extractedText,
     approvedChunks |-> 0,
     rejectedChunks |-> 0]

\* (mutant) the final write leaves processingProgress out
FinalUpdatesNoProgress(parsedData) ==
    [status |-> "ready_for_review",
     extractedText |-> parsedData.extractedText,
     totalChunks |-> Len(parsedData.chunks),
     approvedChunks |-> 0,
     rejectedChunks |-> 0]

\* the write that ends a run whose stages all succeeded
FinalUpdates(parsedData) ==
    [status |-> "ready_for_review",
     processingProgress |-> 100,
     extractedText |-> parsedData.extractedText,
     totalChunks |-> Len(parsedData.chunks),
     approvedChunks |-> 0,
     rejectedChunks |-> 0]

\* processUploadedFile up to `await storage.createInvoice`
Submit ==
    /\ Len(invoices) < cfg.docs
    /\ invoices' = createInvoice([status |-> "processing", processingProgress |-> 10])
    /\ run' = Append(run, [pc |-> "start", parsedData |-> NoParsedData, outcome |-> "running"])
    /\ last' = NoResponse
    /\ UNCHANGED <<chunks, inflight, nreq, editingChunks, editData, cfg, nav>>

\* processUploadedFile resumes, calls processFileInBackground (which runs up to
\* its first await) and returns the id
StartRun(id) ==
    /\ run[id].pc = "start"
    /\ invoices' = updateInvoice(invoices, id, [processingProgress |-> 25])
    /\ run' = [run EXCEPT ![id].pc = "convert"]
    /\ last' = NoResponse
    /\ UNCHANGED <<chunks, inflight, nreq, editingChunks, editData, cfg, nav>>

\* convertToBase64Image settles: resolved (image) or rejected (PDF, unsupported
\* type, sharp error)
ConvertDone(id, ok) ==
    /\ run[id].pc = "convert"
    /\ IF ok
         THEN /\ invoices' = updateInvoice(invoices, id, [processingProgress |-> 50])
              /\ run' = [run EXCEPT ![id].pc = "parse"]
         ELSE /\ invoices' = CatchBlock(id)
              /\ run' = [run EXCEPT ![id].pc = "done", ![id].outcome = "failed"]
    /\ last' = NoResponse
    /\ UNCHANGED <<chunks, inflight, nreq, editingChunks, editData, cfg, nav>>

\* parseInvoiceWithVision resolves with a well-formed result
ParseDone(id, parsedData) ==
    /\ run[id].pc = "parse"
    /\ invoices' = updateInvoice(invoices, id, [processingProgress |-> 75])
    /\ run' = [run EXCEPT ![id].pc = "create", ![id].parsedData = parsedData]
    /\ last' = NoResponse
    /\ UNCHANGED <<chunks, inflight, nreq, editingChunks, editData, cfg, nav>>

\* parseInvoiceWithVision throws
ParseFail(id) ==
    /\ run[id].pc = "parse"
    /\ invoices' = CatchBlock(id)
    /\ run' = [run EXCEPT ![id].pc = "done", ![id].outcome = "failed"]
    /\ last' = NoResponse
    /\ UNCHANGED <<chunks, inflight, nreq, editingChunks, editData, cfg, nav>>

\* (mutant) sequenceNumber is the 0-based index of the entry
RECURSIVE MapCreateZeroBased(_, _, _, _)
MapCreateZeroBased(chks, invoiceId, entries, index) ==
    IF index > Len(entries) THEN chks
    ELSE LET chunkData == entries[index]
             insertChunk == [invoiceId |-> invoiceId,
                             sequenceNumber |-> index - 1,
                             extractedData |-> chunkData.data,
                             status |-> "pending",
                             isEdited |-> FALSE]
         IN  MapCreateZeroBased(IF chunkData.storable THEN createChunk(chks, insertChunk)
                                                      ELSE chks,
                                invoiceId, entries, index + 1)

\* parsedData.chunks.map(async (chunkData, index) => ...): the callbacks run one
\* after the other, each up to its `await storage.createChunk(insertChunk)`
RECURSIVE MapCreate(_, _, _, _)
MapCreate(chks, invoiceId, entries, index) ==
    IF index > Len(entries) THEN chks
    ELSE LET chunkData == entries[index]
             insertChunk == [invoiceId |-> invoiceId,
                             sequenceNumber |-> index,
                             extractedData |-> chunkData.data,
                             status |-> "pending",
                             isEdited |-> FALSE]
         IN  MapCreate(IF chunkData.storable THEN createChunk(chks, insertChunk) ELSE chks,
                       invoiceId, entries, index + 1)

CreateChunks(id) ==
    /\ run[id].pc = "create"
    /\ chunks' = MapCreate(chunks, id, run[id].parsedData.chunks, 1)
    /\ run' = [run EXCEPT ![id].pc = "settle"]
    /\ last' = NoResponse
    /\ UNCHANGED <<invoices, inflight, nreq, editingChunks, editData, cfg, nav>>

\* Promise.all settles: the final write, or the catch block when a createChunk
\* promise rejected
Settle(id) ==
    /\ run[id].pc = "settle"
    /\ LET parsedData == run[id].parsedData
           allResolved == \A i \in DOMAIN parsedData.chunks : parsedData.chunks[i].storable
       IN  IF allResolved
             THEN /\ invoices' = updateInvoice(invoices, id, FinalUpdates(parsedData))
                  /\ run' = [run EXCEPT ![id].pc = "done", ![id].outcome = "ok",
                                         ![id].parsedData = NoParsedData]
             ELSE /\ invoices' = CatchBlock(id)
                  /\ run' = [run EXCEPT ![id].pc = "done", ![id].outcome = "failed",
                                         ![id].parsedData = NoParsedData]
    /\ last' = NoResponse
    /\ UNCHANGED <<chunks, inflight, nreq, editingChunks, editData, cfg, nav>>

\* --------------------------------------------------------------- routes
\* A handler suspended at an await.  pc "scan": the chunk write is made, the
\* call of getChunksByInvoice is next; pc "write": the chunk list is read, the
\* call of updateInvoice is next.  body is req.body; prior records the status
\* the chunk had when the request was received (Null for no chunk).
Request(kind, id, pc, invoiceId, body) ==
    [kind |-> kind, id |-> id, pc |-> pc, invoiceId |-> invoiceId, body |-> body,
     prior |-> IF kind # "finalize" /\ id \in DOMAIN chunks THEN chunks[id].status ELSE Null,
     approvedCount |-> 0, rejectedCount |-> 0,
     hasRejectedChunks |-> FALSE, allChunksReviewed |-> FALSE]

Response(r, code) ==
    [kind |-> r.kind, id |-> r.id, code |-> code, body |-> r.body, prior |-> r.prior]

CanReceive == nreq < cfg.requests /\ Cardinality(inflight) < MaxInflight

\* POST /api/chunks/:id/approve and /reject, up to the await of updateChunkStatus
SetStatusStart(kind, id, status) ==
    /\ CanReceive
    /\ nreq' = nreq + 1
    /\ IF id \in DOMAIN chunks
         THEN /\ chunks' = updateChunkStatus(id, status)
              /\ inflight' = inflight \cup
                     {Request(kind, id, "scan", chunks[id].invoiceId, NoBody)}
              /\ last' = NoResponse
         ELSE /\ last' = Response(Request(kind, id, "scan", 0, NoBody), 404)
              /\ UNCHANGED <<chunks, inflight>>
    /\ UNCHANGED <<invoices, run, editingChunks, editData, cfg, nav>>

Approve(id) == SetStatusStart("approve", id, "approved")

Reject(id) == SetStatusStart("reject", id, "rejected")

\* `await storage.getChunksByInvoice(updatedChunk.invoiceId)`: the list read
\* here is the one the counts are taken from after the await
RecomputeScan(r) ==
    /\ r \in inflight /\ r.kind \in {"approve", "reject", "update"} /\ r.pc = "scan"
    /\ LET list == getChunksByInvoice(r.invoiceId)
       IN  inflight' = (inflight \ {r}) \cup
               {[r EXCEPT !.pc = "write",
                          !.approvedCount = CountStatus(chunks, list, "approved"),
                          !.rejectedCount = CountStatus(chunks, list, "rejected")]}
    /\ last' = NoResponse
    /\ UNCHANGED <<invoices, chunks, run, nreq, editingChunks, editData, cfg, nav>>

\* (mutant) incremental bookkeeping in place of the counts of the full scan
StatsUpdatesIncremental(r) ==
    IF r.invoiceId \in DOMAIN invoices
      THEN [approvedChunks |-> invoices[r.invoiceId].approvedChunks
                                  + (IF r.kind = "approve" THEN 1 ELSE 0),
            rejectedChunks |-> invoices[r.invoiceId].rejectedChunks
                                  + (IF r.kind = "reject" THEN 1 ELSE 0)]
      ELSE [approvedChunks |-> 0, rejectedChunks |-> 0]

\* (mutant) only the approved count is written back
StatsUpdatesApprovedOnly(r) == [approvedChunks |-> r.approvedCount]

\* (mutant) the write of the counts also resets totalChunks to the decided chunks
StatsUpdatesWithTotal(r) ==
    [approvedChunks |-> r.approvedCount, rejectedChunks |-> r.rejectedCount,
     totalChunks |-> r.approvedCount + r.rejectedCount]

\* (mutant) the counts are taken again from the chunks at the write-back
StatsUpdatesFresh(r) ==
    LET list == getChunksByInvoice(r.invoiceId)
    IN  [approvedChunks |-> CountStatus(chunks, list, "approved"),
         rejectedChunks |-> CountStatus(chunks, list, "rejected")]

\* the counts taken from the list read before the await
StatsUpdates(r) == [approvedChunks |-> r.approvedCount, rejectedChunks |-> r.rejectedCount]

\* the counts are written back and the chunk is sent
RecomputeWrite(r) ==
    /\ r \in inflight /\ r.kind \in {"approve", "reject", "update"} /\ r.pc = "write"
    /\ invoices' = updateInvoice(invoices, r.invoiceId, StatsUpdates(r))
    /\ inflight' = inflight \ {r}
    /\ last' = Response(r, 200)
    /\ UNCHANGED <<chunks, run, nreq, editingChunks, editData, cfg, nav>>

\* (mutant) the update route never recomputes the counts
NeedsRecomputeNever(body) == FALSE

\* if (req.body.status)
NeedsRecompute(body) == "status" \in DOMAIN body

\* PATCH /api/chunks/:id up to the await of updateChunk; without a status in
\* the body the handler answers at once
PatchStart(id, body) ==
    /\ CanReceive
    /\ nreq' = nreq + 1
    /\ IF id \in DOMAIN chunks
         THEN /\ chunks' = updateChunk(id, body)
              /\ IF NeedsRecompute(body)
                   THEN /\ inflight' = inflight \cup
                                {Request("update", id, "scan", chunks'[id].invoiceId, body)}
                        /\ last' = NoResponse
                   ELSE /\ last' = Response(Request("update", id, "scan", 0, body), 200)
                        /\ UNCHANGED inflight
         ELSE /\ last' = Response(Request("update", id, "scan", 0, body), 404)
              /\ UNCHANGED <<chunks, inflight>>
    /\ UNCHANGED <<invoices, run, cfg>>

\* (mutant) a save that does not reopen the chunk
SaveBodyKeepStatus(updatedData) == [extractedData |-> updatedData, isEdited |-> TRUE]

\* the body saveChanges hands to onUpdate
SaveBody(updatedData) == [extractedData |-> updatedData, isEdited |-> TRUE, status |-> "pending"]

\* bodies of calls of the update route that touch editable fields
EditableBodies ==
    {[status |-> s] : s \in ChunkStatus} \cup {[extractedData |-> v] : v \in EditValues}
        \cup {SaveBody(v) : v \in EditValues}

\* Bodies that updateChunkSchema (insertChunkSchema.partial()) accepts besides
\* the editable fields: they name the owning document or the sequence number.
\* An invoiceId may be that of no stored document.
SchemaBodies ==
    EditableBodies
        \cup {[sequenceNumber |-> n] : n \in 1..(MaxChunks + 1)}
        \cup {[invoiceId |-> d] : d \in 1..(MaxDocs + 1)}
        \cup {[invoiceId |-> d, status |-> "approved"] : d \in 1..(MaxDocs + 1)}

Patch(id, body) ==
    /\ PatchStart(id, body)
    /\ UNCHANGED <<editingChunks, editData, cfg, nav>>

\* updateChunkSchema.parse throws on a malformed body: caught, answered 400
PatchMalformed(id) ==
    /\ CanReceive
    /\ nreq' = nreq + 1
    /\ last' = Response(Request("update", id, "scan", 0, NoBody), 400)
    /\ UNCHANGED <<invoices, chunks, run, inflight, editingChunks, editData, cfg, nav>>

\* (mutant) the gate forgets the editing status
AllChunksReviewedNoEditing(list) == \A c \in list : chunks[c].status # "pending"

\* (mutant) every in place of some
HasRejectedChunksEvery(list) == \A c \in list : chunks[c].status = "rejected"

\* chunks.every(c => c.status !== 'pending' && c.status !== 'editing')
AllChunksReviewed(list) ==
    \A c \in list : chunks[c].status # "pending" /\ chunks[c].status # "editing"

\* chunks.some(c => c.status === 'rejected')
HasRejectedChunks(list) == \E c \in list : chunks[c].status = "rejected"

FinalStatus(hasRejectedChunks) == IF hasRejectedChunks THEN "rejected" ELSE "approved"

\* POST /api/invoices/:id/finalize up to the await of getChunksByInvoice
FinalizeScan(id) ==
    /\ CanReceive
    /\ nreq' = nreq + 1
    /\ LET list == getChunksByInvoice(id)
       IN  inflight' = inflight \cup
               {[Request("finalize", id, "write", id, NoBody) EXCEPT
                   !.hasRejectedChunks = HasRejectedChunks(list),
                   !.allChunksReviewed = AllChunksReviewed(list)]}
    /\ last' = NoResponse
    /\ UNCHANGED <<invoices, chunks, run, editingChunks, editData, cfg, nav>>

FinalizeWrite(r) ==
    /\ r \in inflight /\ r.kind = "finalize" /\ r.pc = "write"
    /\ inflight' = inflight \ {r}
    /\ IF ~r.allChunksReviewed
         THEN /\ last' = Response(r, 400)
              /\ UNCHANGED invoices
         ELSE LET finalStatus == FinalStatus(r.hasRejectedChunks)
              IN  /\ invoices' = updateInvoice(invoices, r.id, [status |-> finalStatus])
                  /\ last' = Response(r, IF r.id \in DOMAIN invoices THEN 200 ELSE 404)
    /\ UNCHANGED <<chunks, run, nreq, editingChunks, editData, cfg, nav>>

\* ------------------------------------------------- ChunkReview edit state
startEditing(id) ==
    /\ id \in DOMAIN chunks /\ id \notin editingChunks
    /\ editingChunks' = editingChunks \cup {id}
    /\ editData' = [c \in editingChunks' |-> IF c = id THEN chunks[id].extractedData ELSE editData[c]]
    /\ last' = NoResponse
    /\ UNCHANGED <<invoices, chunks, run, inflight, nreq, cfg, nav>>

updateEditData(id, value) ==
    /\ id \in editingChunks
    /\ editData[id] # value
    /\ editData' = [editData EXCEPT ![id] = value]
    /\ last' = NoResponse
    /\ UNCHANGED <<invoices, chunks, run, inflight, nreq, editingChunks, cfg, nav>>

cancelEditing(id) ==
    /\ id \in editingChunks
    /\ editingChunks' = editingChunks \ {id}
    /\ editData' = [c \in editingChunks' |-> editData[c]]
    /\ last' = NoResponse
    /\ UNCHANGED <<invoices, chunks, run, inflight, nreq, cfg, nav>>

\* saveChanges: onUpdate sends the PATCH, then the edit is closed
saveChanges(id) ==
    /\ id \in editingChunks
    /\ PatchStart(id, SaveBody(editData[id]))
    /\ editingChunks' = editingChunks \ {id}
    /\ editData' = [c \in editingChunks' |-> editData[c]]
    /\ UNCHANGED nav

\* ------------------------------------------- useKeyboardNavigation hook
\* The hook sees the chunk list of the document as its `chunks` prop, ordered
\* by sequenceNumber; navChunks holds the statuses in that order and the chunk
\* at index i (0-based, as in the code) is navChunks[i + 1].
Min(S) == CHOOSE x \in S : \A y \in S : x <= y

\* the indices of a list (0-based)
Indices(list) == 0..(Len(list) - 1)

\* chunks.findIndex(test), given the set of the indices whose chunk passes the
\* test: the smallest of them, -1 if there is none
FindIndex(hits) == IF hits = {} THEN -1 ELSE Min(hits)

\* (mutant) the last pending chunk in place of the first
FirstPendingIndexLast(list) ==
    LET hits == {i \in Indices(list) : list[i + 1] = "pending"}
    IN  IF hits = {} THEN -1 ELSE CHOOSE x \in hits : \A y \in hits : y <= x

\* chunks.findIndex(chunk => chunk.status === 'pending')
FirstPendingIndex(list) ==
    FindIndex({index \in Indices(list) : list[index + 1] = "pending"})

\* (mutant) the search starts at the cursor instead of after it
NextPendingIndexFromCursor(list, from) ==
    FindIndex({index \in Indices(list) : index >= from /\ list[index + 1] = "pending"})

\* chunks.findIndex((chunk, index) => index > focusedChunkIndex && chunk.status === 'pending')
NextPendingIndex(list, from) ==
    FindIndex({index \in Indices(list) : index > from /\ list[index + 1] = "pending"})

\* (mutant) Tab stops at the last chunk
TabNextClamped(prev, length) == IF prev < length - 1 THEN prev + 1 ELSE prev

\* prev => prev < chunks.length - 1 ? prev + 1 : 0
TabNext(prev, length) == IF prev < length - 1 THEN prev + 1 ELSE 0

\* prev => prev > 0 ? prev - 1 : chunks.length - 1
TabPrevious(prev, length) == IF prev > 0 THEN prev - 1 ELSE length - 1

\* (mutant) ArrowDown does not stop at the last chunk
StepDownUnclamped(prev, length) == prev + 1

\* (mutant) ArrowDown wraps to the first chunk
StepDownWrapping(prev, length) == IF prev < length - 1 THEN prev + 1 ELSE 0

\* prev => prev < chunks.length - 1 ? prev + 1 : prev
StepDown(prev, length) == IF prev < length - 1 THEN prev + 1 ELSE prev

\* prev => prev > 0 ? prev - 1 : prev
StepUp(prev, length) == IF prev > 0 THEN prev - 1 ELSE prev

\* the lists the query can hand to the hook
ChunkLists == UNION {[1..n -> ChunkStatus] : n \in 0..MaxListLen}

\* The `chunks` prop changes (the invoice query loads, or reloads after a
\* change to a chunk) and the effect on [chunks] runs.  A document's list is
\* empty until it is loaded and keeps its length afterwards.
ChunksChange(list) ==
    /\ Len(navChunks) = 0 \/ Len(list) = Len(navChunks)
    /\ navChunks' = list
    /\ LET firstPendingIndex == FirstPendingIndex(list)
       IN  focusedChunkIndex' =
               IF firstPendingIndex >= 0 THEN firstPendingIndex ELSE focusedChunkIndex
    /\ event' = "chunks"
    /\ invoked' = NoCall
    /\ target' = "none"
    /\ UNCHANGED app

Keys == {"Tab", "ShiftTab", "Enter", "r", "e", "Escape", "ArrowDown", "ArrowUp"}

\* the elements a key event can be aimed at
Targets == {"input", "textarea", "body"}

\* (mutant) only input elements count as text entry
IsTextEntryInputOnly(element) == element = "input"

\* event.target instanceof HTMLInputElement || event.target instanceof HTMLTextAreaElement
IsTextEntry(element) == element \in {"input", "textarea"}

\* (mutant) approve and reject are invoked whatever the status
CanDecideAlways(focusedChunk) == TRUE

\* if (focusedChunk.status === 'pending')
CanDecide(focusedChunk) == focusedChunk = "pending"

\* handleKeyDown past the test of the event's target
Dispatch(key) ==
    /\ event' = key
    /\ IF focusedChunkIndex >= Len(navChunks)
         THEN \* if (!focusedChunk) return
              /\ invoked' = NoCall
              /\ UNCHANGED focusedChunkIndex
         ELSE LET focusedChunk == navChunks[focusedChunkIndex + 1]
                  length == Len(navChunks)
                  nextPendingIndex == NextPendingIndex(navChunks, focusedChunkIndex)
                  advanced == IF nextPendingIndex >= 0 THEN nextPendingIndex
                                                       ELSE focusedChunkIndex
              IN  CASE key = "Tab" ->
                         /\ focusedChunkIndex' = TabNext(focusedChunkIndex, length)
                         /\ invoked' = NoCall
                    [] key = "ShiftTab" ->
                         /\ focusedChunkIndex' = TabPrevious(focusedChunkIndex, length)
                         /\ invoked' = NoCall
                    [] key \in {"Enter", "r"} ->
                         IF CanDecide(focusedChunk)
                           THEN /\ invoked' = [fn |-> IF key = "Enter" THEN "onApprove"
                                                                      ELSE "onReject",
                                               index |-> focusedChunkIndex]
                                /\ focusedChunkIndex' = advanced
                           ELSE /\ invoked' = NoCall
                                /\ UNCHANGED focusedChunkIndex
                    [] key = "e" ->
                         /\ invoked' = [fn |-> "onEdit", index |-> focusedChunkIndex]
                         /\ UNCHANGED focusedChunkIndex
                    [] key = "Escape" ->
                         /\ invoked' = NoCall
                         /\ UNCHANGED focusedChunkIndex
                    [] key = "ArrowDown" ->
                         /\ focusedChunkIndex' = StepDown(focusedChunkIndex, length)
                         /\ invoked' = NoCall
                    [] key = "ArrowUp" ->
                         /\ focusedChunkIndex' = StepUp(focusedChunkIndex, length)
                         /\ invoked' = NoCall

\* handleGlobalKeyDown and handleKeyDown for a key event aimed at `element`;
\* event records the key when the switch is reached and "typing" when the
\* event is left to the text-entry field
handleKeyDown(key, element) ==
    /\ target' = element
    /\ IF IsTextEntry(element)
         THEN /\ event' = "typing"
              /\ invoked' = NoCall
              /\ UNCHANGED focusedChunkIndex
         ELSE Dispatch(key)
    /\ UNCHANGED <<navChunks, app>>

\* ------------------------------------------------------- specifications
\* Every handler against every other, suspended at any await.
Next ==
    \/ Submit
    \/ \E id \in DOMAIN run : StartRun(id)
    \/ \E id \in DOMAIN run, ok \in BOOLEAN : ConvertDone(id, ok)
    \/ \E id \in DOMAIN run, parsedData \in WellFormedResults : ParseDone(id, parsedData)
    \/ \E id \in DOMAIN run : ParseFail(id)
    \/ \E id \in DOMAIN run : CreateChunks(id)
    \/ \E id \in DOMAIN run : Settle(id)
    \/ \E id \in ChunkIds : Approve(id)
    \/ \E id \in ChunkIds : Reject(id)
    \/ \E id \in ChunkIds : PatchMalformed(id)
    \/ \E id \in ChunkIds, body \in EditableBodies : Patch(id, body)
    \/ \E id \in InvoiceIds : FinalizeScan(id)
    \/ \E r \in inflight : RecomputeScan(r)
    \/ \E r \in inflight : RecomputeWrite(r)
    \/ \E r \in inflight : FinalizeWrite(r)

Spec == Init /\ [][Next]_vars

\* The background task is scheduled: a run that can take a step (the event loop
\* resumes it, the collaborator or the repository answers with a result or an
\* error) eventually takes one.
PipelineStep(id) ==
    /\ id \in DOMAIN run
    /\ \/ StartRun(id)
       \/ \E ok \in BOOLEAN : ConvertDone(id, ok)
       \/ \E parsedData \in WellFormedResults : ParseDone(id, parsedData)
       \/ ParseFail(id)
       \/ CreateChunks(id)
       \/ Settle(id)

SpecLive == Init /\ [][Next]_vars /\ \A id \in 1..MaxDocs : WF_vars(PipelineStep(id))

\* The pipeline on its own: several documents, whose runs interleave at every
\* await, and extraction results whose entries differ.
PipelineValues == {"x", "y"}

PipelineResults ==
    [chunks : SeqsUpTo([data : PipelineValues, storable : BOOLEAN], MaxChunks),
     extractedText : {"text"}]

InitPipeline == Empty /\ cfg = [docs |-> MaxPipelineDocs, requests |-> 0]

NextPipeline ==
    \/ Submit
    \/ \E id \in DOMAIN run : StartRun(id)
    \/ \E id \in DOMAIN run, ok \in BOOLEAN : ConvertDone(id, ok)
    \/ \E id \in DOMAIN run, parsedData \in PipelineResults : ParseDone(id, parsedData)
    \/ \E id \in DOMAIN run : ParseFail(id)
    \/ \E id \in DOMAIN run : CreateChunks(id)
    \/ \E id \in DOMAIN run : Settle(id)

SpecPipeline == InitPipeline /\ [][NextPipeline]_vars

\* The review of a document: one reviewer, whose requests are answered one at
\* a time (no other step is taken while a handler is suspended) and whose
\* approve / reject / update requests name chunks of documents in
\* ready_for_review.
Quiet == inflight = {}

InReview(id) ==
    id \in DOMAIN chunks => /\ chunks[id].invoiceId \in DOMAIN invoices
                            /\ invoices[chunks[id].invoiceId].status = "ready_for_review"

NextReview ==
    \/ Quiet /\ Submit
    \/ \E id \in DOMAIN run : Quiet /\ StartRun(id)
    \/ \E id \in DOMAIN run, ok \in BOOLEAN : Quiet /\ ConvertDone(id, ok)
    \/ \E id \in DOMAIN run, parsedData \in WellFormedResults : Quiet /\ ParseDone(id, parsedData)
    \/ \E id \in DOMAIN run : Quiet /\ ParseFail(id)
    \/ \E id \in DOMAIN run : Quiet /\ CreateChunks(id)
    \/ \E id \in DOMAIN run : Quiet /\ Settle(id)
    \/ \E id \in ChunkIds : Quiet /\ InReview(id) /\ Approve(id)
    \/ \E id \in ChunkIds : Quiet /\ InReview(id) /\ Reject(id)
    \/ \E id \in ChunkIds : Quiet /\ InReview(id) /\ PatchMalformed(id)
    \/ \E id \in ChunkIds, body \in EditableBodies : Quiet /\ InReview(id) /\ Patch(id, body)
    \/ \E id \in InvoiceIds : Quiet /\ FinalizeScan(id)
    \/ \E id \in ChunkIds : Quiet /\ startEditing(id)
    \/ \E id \in ChunkIds, value \in EditValues : Quiet /\ updateEditData(id, value)
    \/ \E id \in ChunkIds : Quiet /\ cancelEditing(id)
    \/ \E id \in ChunkIds : Quiet /\ InReview(id) /\ saveChanges(id)
    \/ \E r \in inflight : RecomputeScan(r)
    \/ \E r \in inflight : RecomputeWrite(r)
    \/ \E r \in inflight : FinalizeWrite(r)

SpecReview == InitReview /\ [][NextReview]_vars

\* Any client of the API: requests answered one at a time, for any chunk or
\* document whatever its status, with every body the update schema accepts.
NextApi ==
    \/ Quiet /\ Submit
    \/ \E id \in DOMAIN run : Quiet /\ StartRun(id)
    \/ \E id \in DOMAIN run, ok \in BOOLEAN : Quiet /\ ConvertDone(id, ok)
    \/ \E id \in DOMAIN run, parsedData \in WellFormedResults : Quiet /\ ParseDone(id, parsedData)
    \/ \E id \in DOMAIN run : Quiet /\ ParseFail(id)
    \/ \E id \in DOMAIN run : Quiet /\ CreateChunks(id)
    \/ \E id \in DOMAIN run : Quiet /\ Settle(id)
    \/ \E id \in ChunkIds : Quiet /\ Approve(id)
    \/ \E id \in ChunkIds : Quiet /\ Reject(id)
    \/ \E id \in ChunkIds : Quiet /\ PatchMalformed(id)
    \/ \E id \in ChunkIds, body \in SchemaBodies : Quiet /\ Patch(id, body)
    \/ \E id \in InvoiceIds : Quiet /\ FinalizeScan(id)
    \/ \E r \in inflight : RecomputeScan(r)
    \/ \E r \in inflight : RecomputeWrite(r)
    \/ \E r \in inflight : FinalizeWrite(r)

SpecApi == Init /\ [][NextApi]_vars

\* The review-queue navigator on its own: the list it is handed changes in any
\* way a document's list can, and keys are pressed in any order.
InitNavigator == Empty /\ cfg = [docs |-> MaxDocs, requests |-> MaxReviewRequests]

NextNavigator ==
    \/ \E list \in ChunkLists : ChunksChange(list)
    \/ \E key \in Keys, element \in Targets : handleKeyDown(key, element)

SpecNavigator == InitNavigator /\ [][NextNavigator]_vars

\* ----------------------------------------------------------------- claims
ChunksOf(id) == getChunksByInvoice(id)

\* C1: for every document, in every reachable state, approvedChunks +
\* rejectedChunks <= totalChunks.
C1_CountsWithinTotal ==
    \A id \in DOMAIN invoices :
        invoices[id].approvedChunks + invoices[id].rejectedChunks <= invoices[id].totalChunks

\* C2: a finalize request answered while a chunk of the document is pending or
\* editing is answered 400 and leaves every document and chunk as it was (so
\* does the step that receives it); with every chunk of an existing document
\* approved or rejected it is answered 200.
C2_FinalizeGate ==
    [][/\ \A r \in inflight' \ inflight :
             r.kind = "finalize" => invoices' = invoices /\ chunks' = chunks
       /\ last'.kind = "finalize" =>
             LET open == \E c \in ChunksOf(last'.id) : chunks[c].status \in {"pending", "editing"}
             IN  /\ open => last'.code = 400 /\ invoices' = invoices /\ chunks' = chunks
                 /\ ~open /\ last'.id \in DOMAIN invoices => last'.code = 200]_vars

C2_Witness ==
    /\ last.kind = "finalize" /\ last.code = 400
    /\ \E c \in ChunksOf(last.id) : chunks[c].status = "editing"
    /\ \E c \in ChunksOf(last.id) : chunks[c].status = "approved"

\* C3: right after a finalize answered 200 the document is rejected if one of
\* its chunks is rejected and approved otherwise.
C3_FinalizeOutcome ==
    last.kind = "finalize" /\ last.code = 200 =>
        invoices[last.id].status =
            IF \E c \in ChunksOf(last.id) : chunks[c].status = "rejected"
              THEN "rejected" ELSE "approved"

C3_Witness ==
    /\ last.kind = "finalize" /\ last.code = 200
    /\ invoices[last.id].status = "rejected"
    /\ \E c \in ChunksOf(last.id) : chunks[c].status = "approved"
    /\ Cardinality({c \in ChunksOf(last.id) : chunks[c].status = "rejected"}) = 1

\* C4: a run in which a stage raised an error (every run that does not end by
\* Promise.all resolving over a result whose entries were all stored) ends
\* with the document at status rejected and processingProgress 0.
RunEnds(id) == run[id].pc # "done" /\ run'[id].pc = "done"

NoStageFailed(id) ==
    /\ run[id].pc = "settle"
    /\ \A i \in DOMAIN run[id].parsedData.chunks : run[id].parsedData.chunks[i].storable

C4_FailureRejects ==
    [][\A id \in DOMAIN run :
          RunEnds(id) /\ ~NoStageFailed(id) =>
              /\ invoices'[id].status = "rejected"
              /\ invoices'[id].processingProgress = 0]_vars

C4_Witness ==
    \E id \in DOMAIN run :
        /\ run[id].outcome = "failed"
        /\ ChunksOf(id) # {}
        /\ invoices[id].status = "rejected" /\ invoices[id].processingProgress = 0

C6_SuccessfulRun ==
    [][\A id \in DOMAIN run :
          RunEnds(id) /\ NoStageFailed(id) =>
              LET N == Len(run[id].parsedData.chunks)
              IN  /\ invoices'[id] = [status |-> "ready_for_review",
                                      processingProgress |-> 100,
                                      extractedText |-> run[id].parsedData.extractedText,
                                      totalChunks |-> N,
                                      approvedChunks |-> 0,
                                      rejectedChunks |-> 0]
                  /\ invoices'[id].extractedText # Null
                  /\ Cardinality({c \in DOMAIN chunks' : chunks'[c].invoiceId = id}) = N]_vars

C6_Witness ==
    \E id \in DOMAIN run :
        /\ run[id].outcome = "ok"
        /\ invoices[id].status = "ready_for_review"
        /\ invoices[id].totalChunks = MaxChunks
        /\ Cardinality(ChunksOf(id)) = MaxChunks

Repeat(r) ==
    \/ r.kind = "approve" /\ r.prior = "approved"
    \/ r.kind = "reject" /\ r.prior = "rejected"

IsSave(resp) ==
    /\ resp.kind = "update" /\ resp.code = 200
    /\ \E v \in ExtractedValues \cup EditValues : resp.body = SaveBody(v)

C9_SaveReopens ==
    IsSave(last) =>
        LET c == chunks[last.id]
        IN  /\ c.extractedData = last.body.extractedData
            /\ c.isEdited
            /\ c.status = "pending"
            /\ invoices[c.invoiceId].approvedChunks = CountStatus(chunks, ChunksOf(c.invoiceId), "approved")
            /\ invoices[c.invoiceId].rejectedChunks = CountStatus(chunks, ChunksOf(c.invoiceId), "rejected")

C9_Witness ==
    /\ IsSave(last)
    /\ last.prior = "approved"
    /\ last.body.extractedData \in EditValues
    /\ invoices[chunks[last.id].invoiceId].approvedChunks = 0

\* C10: every chunk with isEdited = true has originalData present, equal to
\* the data it was created with.
C10_OriginalDataKept ==
    \A c \in DOMAIN chunks :
        chunks[c].isEdited => chunks[c].originalData \in ExtractedValues

\* C11: once a finalize has succeeded for a document (its status is approved,
\* or rejected without its run having failed), a later finalize call does not
\* change the document's status, whatever happened to the chunks in between.
Finalized(id) ==
    \/ invoices[id].status = "approved"
    \/ invoices[id].status = "rejected" /\ (id \in DOMAIN run => run[id].outcome # "failed")

C11_RefinalizeNoOp ==
    [][\A id \in DOMAIN invoices :
          Finalized(id) /\ last'.kind = "finalize" /\ last'.id = id =>
              invoices'[id].status = invoices[id].status]_vars

\* C12: once a run has failed and left the document rejected with progress 0,
\* no step changes the document's status.
C12_FailureIsTerminal ==
    [][\A id \in DOMAIN run :
          /\ run[id].outcome = "failed"
          /\ invoices[id].status = "rejected"
          /\ invoices[id].processingProgress = 0
          => invoices'[id].status = "rejected"]_vars

\* C13: with the background task scheduled and its collaborators answering,
\* every submitted document, from any point at which its run has not ended,
\* eventually is in ready_for_review or rejected.
C13_NoStuckProcessing ==
    \A id \in 1..MaxDocs :
        (id \in DOMAIN run /\ run[id].pc # "done") ~>
            (id \in DOMAIN invoices /\ invoices[id].status \in {"ready_for_review", "rejected"})

C13_Witness ==
    \E id \in DOMAIN run :
        /\ run[id].pc = "done"
        /\ invoices[id].status \in {"ready_for_review", "rejected"}
        /\ invoices[id].processingProgress \in {0, 100}
        /\ inflight # {}

\* C14: at the step in which processUploadedFile returns the id, the document
\* exists with status processing and processingProgress 10.
C14_SubmitReturns ==
    [][\A id \in DOMAIN run :
          run[id].pc = "start" /\ run'[id].pc = "convert" =>
              /\ id \in DOMAIN invoices'
              /\ invoices'[id].status = "processing"
              /\ invoices'[id].processingProgress = 10]_vars

\* C15: a step that answers an approve, reject, update or finalize request with
\* 404 or 400 leaves every document and every chunk as it was, and so does the
\* step that received the request when it is not the same one.
C15_ErrorsChangeNothing ==
    [][/\ last'.code \in {400, 404} => invoices' = invoices /\ chunks' = chunks
       /\ \A r \in inflight' \ inflight :
             r.kind = "finalize" /\ (~r.allChunksReviewed \/ r.id \notin DOMAIN invoices) =>
                 invoices' = invoices /\ chunks' = chunks]_vars

C15_Witness ==
    /\ last.code \in {400, 404}
    /\ last.kind = "update"
    /\ last.id \in DOMAIN chunks
    /\ chunks[last.id].status = "approved"
    /\ invoices[chunks[last.id].invoiceId].approvedChunks = 1

\* the indices of the pending chunks of a list handed to the navigator
PendingAt(list) == {j \in 0..(Len(list) - 1) : list[j + 1] = "pending"}

\* C16: Enter (approve) or r (reject) on the chunk at cursor i: when that chunk
\* is pending the cursor moves to the smallest j > i whose chunk is pending, or
\* stays at i when there is none; when it is not pending the cursor stays.
C16_AdvanceToNextPending ==
    [][event' \in {"Enter", "r"} /\ focusedChunkIndex < Len(navChunks) =>
          LET i == focusedChunkIndex
              later == {j \in PendingAt(navChunks) : j > i}
          IN  IF i \in PendingAt(navChunks) /\ later # {}
                THEN /\ focusedChunkIndex' \in later
                     /\ \A j \in later : focusedChunkIndex' <= j
                ELSE focusedChunkIndex' = i]_vars

C16_Witness ==
    /\ event = "Enter"
    /\ invoked.fn = "onApprove"
    /\ focusedChunkIndex = invoked.index + 2
    /\ navChunks[invoked.index + 2] = "approved"
    /\ navChunks[focusedChunkIndex + 1] = "pending"

\* C17 as stated: when the list is loaded or changes, the cursor is the index
\* of the first pending chunk, and 0 if no chunk is pending.
C17_InitializeOrZero ==
    [][event' = "chunks" =>
          IF PendingAt(navChunks') # {}
            THEN /\ focusedChunkIndex' \in PendingAt(navChunks')
                 /\ \A j \in PendingAt(navChunks') : focusedChunkIndex' <= j
            ELSE focusedChunkIndex' = 0]_vars

\* C17 as amended: when the list is loaded or changes, the cursor is the index
\* of the first pending chunk; if no chunk is pending the cursor is left where
\* it was (0 on first load).
C17_InitializeOrKeep ==
    [][event' = "chunks" =>
          IF PendingAt(navChunks') # {}
            THEN /\ focusedChunkIndex' \in PendingAt(navChunks')
                 /\ \A j \in PendingAt(navChunks') : focusedChunkIndex' <= j
            ELSE /\ focusedChunkIndex' = focusedChunkIndex
                 /\ event = "mount" => focusedChunkIndex' = 0]_vars

C17_Witness ==
    /\ event = "chunks"
    /\ PendingAt(navChunks) = {}
    /\ focusedChunkIndex > 0

\* C18: on a list of n >= 1 chunks Tab moves the cursor from i to (i+1) mod n
\* and Shift+Tab from i to (i-1) mod n, whatever the statuses.
C18_TabWraps ==
    [][Len(navChunks) >= 1 =>
          LET n == Len(navChunks)
              i == focusedChunkIndex
          IN  /\ event' = "Tab" => focusedChunkIndex' = (i + 1) % n
              /\ event' = "ShiftTab" => focusedChunkIndex' = (i - 1) % n]_vars

C18_Witness ==
    /\ event = "Tab"
    /\ focusedChunkIndex = 0
    /\ Len(navChunks) = MaxListLen
    /\ PendingAt(navChunks) = {}

\* C19: on a list of n >= 1 chunks ArrowDown moves the cursor from i to
\* min(i+1, n-1) and ArrowUp from i to max(i-1, 0).
C19_ArrowsClamp ==
    [][Len(navChunks) >= 1 =>
          LET n == Len(navChunks)
              i == focusedChunkIndex
          IN  /\ event' = "ArrowDown" =>
                    focusedChunkIndex' = IF i + 1 <= n - 1 THEN i + 1 ELSE n - 1
              /\ event' = "ArrowUp" =>
                    focusedChunkIndex' = IF i - 1 >= 0 THEN i - 1 ELSE 0]_vars

C19_Witness ==
    /\ event = "ArrowDown"
    /\ focusedChunkIndex = Len(navChunks) - 1
    /\ Len(navChunks) = MaxListLen
    /\ navChunks[1] = "pending"

\* C20: a document is created with processingProgress 10; a step changes the
\* progress only from one checkpoint to the next (10, 25, 50, 75, 100) or, when
\* the run fails, to 0; a run that ends leaves 100 when it succeeded and 0 when
\* it failed, and nothing changes the progress after that.
Checkpoints == {<<10, 25>>, <<25, 50>>, <<50, 75>>, <<75, 100>>}

C20_ProgressCheckpoints ==
    [][/\ \A id \in DOMAIN invoices' \ DOMAIN invoices :
             invoices'[id].processingProgress = 10
       /\ \A id \in DOMAIN run :
             LET p == invoices[id].processingProgress
                 q == invoices'[id].processingProgress
             IN  /\ \/ q = p
                    \/ <<p, q>> \in Checkpoints /\ run[id].outcome = "running"
                    \/ q = 0 /\ run[id].outcome = "running" /\ run'[id].outcome = "failed"
                 /\ RunEnds(id) => q = IF run'[id].outcome = "ok" THEN 100 ELSE 0
                 /\ run[id].pc = "done" => q = p]_vars

C20_Witness ==
    \E id \in DOMAIN run :
        /\ run[id].outcome = "ok"
        /\ invoices[id].processingProgress = 100
        /\ invoices[id].status = "approved"
        /\ last.code = 200

\* C21: a checkpoint is visible only once its stage is over: with
\* processingProgress 25 the conversion of the input has ended, and with
\* processingProgress 75 every chunk of the extraction result is stored.
C21_CheckpointAfterStage ==
    \A id \in DOMAIN run :
        /\ invoices[id].processingProgress = 25 => run[id].pc # "convert"
        /\ invoices[id].processingProgress = 75 =>
               Cardinality(ChunksOf(id)) = Len(run[id].parsedData.chunks)

\* C22: the step that materializes an extraction result of N entries, each of
\* which the repository stores, leaves the document with exactly N chunks; for
\* every k in 1..N one of them has sequenceNumber k and carries the k-th
\* entry's data, and each is pending, not edited and without originalData.
C22_Materialization ==
    [][\A id \in DOMAIN run :
          /\ run[id].pc = "create" /\ run'[id].pc = "settle"
          /\ \A i \in DOMAIN run[id].parsedData.chunks : run[id].parsedData.chunks[i].storable
          => LET entries == run[id].parsedData.chunks
                 N == Len(entries)
                 mine == {c \in DOMAIN chunks' : chunks'[c].invoiceId = id}
             IN  /\ Cardinality(mine) = N
                 /\ \A k \in 1..N :
                       \E c \in mine :
                           /\ chunks'[c].sequenceNumber = k
                           /\ chunks'[c].extractedData = entries[k].data
                           /\ chunks'[c].status = "pending"
                           /\ chunks'[c].isEdited = FALSE
                           /\ chunks'[c].originalData = Null]_vars

C22_Witness ==
    \E id \in DOMAIN run :
        /\ run[id].pc = "settle"
        /\ Cardinality(ChunksOf(id)) = MaxChunks
        /\ \E c, d \in ChunksOf(id) :
              /\ chunks[c].sequenceNumber = 1 /\ chunks[d].sequenceNumber = MaxChunks
              /\ chunks[c].extractedData # chunks[d].extractedData
              /\ c # chunks[c].sequenceNumber

\* C23: no step changes the sequenceNumber or the owning document of a stored
\* chunk, and no step removes a chunk or adds one to a document whose batch is
\* stored.
C23_ChunkIdentityFixed ==
    [][\A c \in DOMAIN chunks :
          /\ c \in DOMAIN chunks'
          /\ chunks'[c].sequenceNumber = chunks[c].sequenceNumber
          /\ chunks'[c].invoiceId = chunks[c].invoiceId]_vars

\* C24: a step that makes a chunk approved or rejected finds it pending: no
\* chunk goes from approved to rejected or from rejected to approved directly.
C24_DecidedOnlyFromPending ==
    [][\A c \in DOMAIN chunks :
          /\ chunks'[c].status \in {"approved", "rejected"}
          /\ chunks'[c].status # chunks[c].status
          => chunks[c].status = "pending"]_vars

\* C25: a chunk whose edit is open (startEditing done, neither saveChanges nor
\* cancelEditing yet) has status editing, and no finalize of its document is
\* answered 200 meanwhile.
C25_OpenEditBlocksFinalize ==
    /\ \A c \in editingChunks : chunks[c].status = "editing"
    /\ last.kind = "finalize" /\ last.code = 200 =>
           \A c \in ChunksOf(last.id) : c \notin editingChunks

\* the callback Enter and r stand for
Decision(key, index) ==
    [fn |-> IF key = "Enter" THEN "onApprove" ELSE "onReject", index |-> index]

\* C26 as stated: Enter and r invoke onApprove and onReject on the chunk at the
\* cursor whatever its status.
C26_InvokedWhateverStatus ==
    [][event' \in {"Enter", "r"} /\ focusedChunkIndex < Len(navChunks) =>
          invoked' = Decision(event', focusedChunkIndex)]_vars

\* C26 as amended: Enter and r invoke onApprove and onReject on the chunk at
\* the cursor only when it is pending; on a chunk that is not pending nothing
\* is invoked and the cursor does not move.
C26_InvokedOnlyWhenPending ==
    [][event' \in {"Enter", "r"} /\ focusedChunkIndex < Len(navChunks) =>
          IF navChunks[focusedChunkIndex + 1] = "pending"
            THEN invoked' = Decision(event', focusedChunkIndex)
            ELSE invoked' = NoCall /\ focusedChunkIndex' = focusedChunkIndex]_vars

C26_Witness ==
    /\ event = "r"
    /\ invoked = NoCall
    /\ focusedChunkIndex < Len(navChunks)
    /\ navChunks[focusedChunkIndex + 1] = "approved"
    /\ PendingAt(navChunks) # {}

\* C27: a key event aimed at an input or a textarea moves no cursor and invokes
\* no callback.
C27_TypingIsIgnored ==
    [][target' \in {"input", "textarea"} =>
          /\ focusedChunkIndex' = focusedChunkIndex
          /\ navChunks' = navChunks
          /\ invoked' = NoCall]_vars

C27_Witness ==
    /\ target = "textarea"
    /\ event = "typing"
    /\ focusedChunkIndex < Len(navChunks) - 1
    /\ navChunks[focusedChunkIndex + 1] = "pending"

ChunkKinds == {"approve", "reject", "update"}

OthersKept(id) ==
    /\ DOMAIN chunks' = DOMAIN chunks
    /\ \A c \in DOMAIN chunks : c # id => chunks'[c] = chunks[c]

OnlyCounts(invoiceId) ==
    /\ DOMAIN invoices' = DOMAIN invoices
    /\ \A d \in DOMAIN invoices :
          IF d = invoiceId
            THEN [invoices'[d] EXCEPT !.approvedChunks = invoices[d].approvedChunks,
                                      !.rejectedChunks = invoices[d].rejectedChunks]
                     = invoices[d]
            ELSE invoices'[d] = invoices[d]

OnlyStatus(invoiceId) ==
    /\ DOMAIN invoices' = DOMAIN invoices
    /\ \A d \in DOMAIN invoices :
          IF d = invoiceId
            THEN [invoices'[d] EXCEPT !.status = invoices[d].status] = invoices[d]
            ELSE invoices'[d] = invoices[d]

C30_Frame ==
    [][/\ \A r \in inflight' \ inflight :
             /\ r.kind \in ChunkKinds /\ r.pc = "scan" => invoices' = invoices /\ OthersKept(r.id)
             /\ r.kind = "finalize" => invoices' = invoices /\ chunks' = chunks
       /\ \A r \in inflight \ inflight' :
             /\ r.kind \in ChunkKinds => chunks' = chunks /\ OnlyCounts(r.invoiceId)
             /\ r.kind = "finalize" => chunks' = chunks /\ OnlyStatus(r.id)
       /\ last'.kind \in ChunkKinds /\ inflight' = inflight =>
             invoices' = invoices /\ OthersKept(last'.id)]_vars

C30_Witness ==
    /\ last.kind = "reject" /\ last.code = 200
    /\ invoices[chunks[last.id].invoiceId].rejectedChunks = 1
    /\ invoices[chunks[last.id].invoiceId].totalChunks = MaxChunks
    /\ invoices[chunks[last.id].invoiceId].status = "approved"
    /\ \E c \in DOMAIN chunks : c # last.id /\ chunks[c].isEdited

\* the chunks stored for a document, in the order they were stored
ChunkSeq(chks, id) == SelectSeq(chks, LAMBDA c : c.invoiceId = id)

\* The run of a document executed with no other run: from the stage it is at
\* when it ends, the record of the document and the chunks stored for it.
AloneInvoice(r, outcome) ==
    LET created == [status |-> "processing", processingProgress |-> 10,
                    extractedText |-> Null, totalChunks |-> 0,
                    approvedChunks |-> 0, rejectedChunks |-> 0]
    IN  IF outcome = "ok" THEN Merge(created, FinalUpdates(r.parsedData))
                          ELSE Merge(created, CatchUpdates)

AloneChunks(id, r) ==
    IF r.pc = "settle" THEN MapCreate(<<>>, id, r.parsedData.chunks, 1) ELSE <<>>

AloneOutcome(r, outcome) ==
    IF r.pc = "settle"
      THEN outcome = "ok" <=> \A i \in DOMAIN r.parsedData.chunks : r.parsedData.chunks[i].storable
      ELSE outcome = "failed"

\* C31: with the runs of several documents interleaved at every await, a step
\* of one run leaves every other document and the chunks of every other
\* document as they were, and the step that ends a run, successful or failed,
\* leaves its document and the chunks stored for it as the run executed alone
\* leaves them.
C31_RunsIndependent ==
    [][\A id \in DOMAIN run :
          /\ run'[id] = run[id] =>
                 /\ invoices'[id] = invoices[id]
                 /\ ChunkSeq(chunks', id) = ChunkSeq(chunks, id)
          /\ run[id].pc # "done" /\ run'[id].pc = "done" =>
                 /\ AloneOutcome(run[id], run'[id].outcome)
                 /\ invoices'[id] = AloneInvoice(run[id], run'[id].outcome)
                 /\ ChunkSeq(chunks', id) = AloneChunks(id, run[id])]_vars

C31_Witness ==
    /\ Len(run) = 2
    /\ run[1].pc = "done" /\ run[1].outcome = "ok"
    /\ run[2].pc = "done" /\ run[2].outcome = "failed"
    /\ Len(ChunkSeq(chunks, 1)) = MaxChunks
    /\ Len(ChunkSeq(chunks, 2)) >= 1
    /\ chunks[1].invoiceId = 2

\* C32: when a request on one chunk is received while a request on another
\* chunk is suspended, its chunk write takes effect and the other request's
\* chunk is left as written; the write-back of a request stores the counts
\* that request computed at its own scan, whatever the chunks are by then
\* (last writer wins), so that after two overlapping requests have both
\* completed the stored counts can differ from the chunks' statuses.
C32_LastWriterWins ==
    [][/\ \A r \in inflight' \ inflight :
             /\ r.kind \in {"approve", "reject"} /\ r.pc = "scan"
             /\ \E q \in inflight : q.kind \in ChunkKinds /\ q.id # r.id
             => /\ chunks'[r.id].status = IF r.kind = "approve" THEN "approved" ELSE "rejected"
                /\ OthersKept(r.id)
       /\ \A r \in inflight \ inflight' :
             r.kind \in ChunkKinds /\ r.pc = "write" /\ r.invoiceId \in DOMAIN invoices
             => /\ invoices'[r.invoiceId].approvedChunks = r.approvedCount
                /\ invoices'[r.invoiceId].rejectedChunks = r.rejectedCount
                /\ chunks' = chunks]_vars

C32_Witness ==
    /\ Quiet /\ nreq = 2
    /\ last.kind = "approve" /\ last.code = 200
    /\ LET d == chunks[last.id].invoiceId
       IN  /\ invoices[d].status = "ready_for_review"
           /\ invoices[d].totalChunks = 2
           /\ \A c \in ChunksOf(d) : chunks[c].status = "approved"
           /\ CountStatus(chunks, ChunksOf(d), "approved") = 2
           /\ invoices[d].approvedChunks = 1

\* C33: a step changes the status or the data of a stored chunk only while the
\* chunk's document is in ready_for_review: not between the creation of the
\* chunks and the final write of the run, and not after finalize.
C33_ChangedOnlyInReview ==
    [][\A c \in DOMAIN chunks :
          \/ chunks'[c].status # chunks[c].status
          \/ chunks'[c].extractedData # chunks[c].extractedData
          => /\ chunks[c].invoiceId \in DOMAIN invoices
             /\ invoices[chunks[c].invoiceId].status = "ready_for_review"]_vars

\* C34: in every reachable state a document in ready_for_review has
\* processingProgress 100 and totalChunks equal to the number of chunks stored
\* for it, and a document in processing has processingProgress 10, 25, 50 or 75.
C34_StatusProgressTotal ==
    \A id \in DOMAIN invoices :
        /\ invoices[id].status = "ready_for_review" =>
               /\ invoices[id].processingProgress = 100
               /\ invoices[id].totalChunks = Cardinality(ChunksOf(id))
        /\ invoices[id].status = "processing" =>
               invoices[id].processingProgress \in {10, 25, 50, 75}

\* the list the query hands back after the decision invoked on the chunk at
\* `index` has been stored
Refreshed(list, call) ==
    [list EXCEPT ![call.index + 1] = IF call.fn = "onApprove" THEN "approved" ELSE "rejected"]

\* C35: after Enter or r on the pending chunk at cursor i, the refresh of the
\* list that the decision triggers leaves the cursor on the next pending chunk
\* strictly after i when there is one, and does not move it to a pending chunk
\* at an index below i.
C35_RefreshKeepsAdvance ==
    [][/\ event \in {"Enter", "r"}
       /\ invoked.fn \in {"onApprove", "onReject"}
       /\ event' = "chunks"
       /\ navChunks' = Refreshed(navChunks, invoked)
       => LET i == invoked.index
              nextPendingIndex == NextPendingIndex(navChunks', i)
          IN  /\ nextPendingIndex >= 0 => focusedChunkIndex' = nextPendingIndex
              /\ ~(focusedChunkIndex' < i /\ navChunks'[focusedChunkIndex' + 1] = "pending")]_vars

====
